---- MODULE Spec2Model ----
(***************************************************************************)
(* EsiApp (esipy/app.py): the cache-aware resolution of the ESI meta       *)
(* document and of the documents it references.                            *)
(*                                                                         *)
(* A registry owns an in-memory root document (self.app) and a cache       *)
(* adapter (self.cache).  __get_or_create_app reads the adapter, decides   *)
(* whether the entry is fresh, probes the server with HEAD and downloads   *)
(* the document with GET (three attempts).  Time, the transport's answers  *)
(* and the adapter's own expiry are the environment.                       *)
(***************************************************************************)
EXTENDS Integers, Sequences, FiniteSets, TLC

VARIABLES
    expire,     \* self.expire, the policy after the constructor's normalisation
    caching,    \* self.caching
    cache,      \* the cache adapter's store: key -> stored value or Absent
    app,        \* self.app, the in-memory root document (NoneDoc when cleared)
    now,        \* time.time()
    nextId,     \* identity of the next OpenAPIWrapper object to be built
    last,       \* what the call that just returned did, until the caller takes it
    pc,         \* concurrent resolvers of one key: where each one stands
    loc,        \* concurrent resolvers: the local variables of each
    server,     \* the version of the document the server serves
    stored      \* the highest version a resolver has stored so far

vars == <<expire, caching, cache, app, now, nextId, last, pc, loc, server, stored>>

(* the part of the state only concurrent resolvers use *)
raceVars == <<pc, loc, server, stored>>

----------------------------------------------------------------------------
(* Bounds of the model *)

MaxTime == 2
MaxDocs == 2

(* Python's None in the integer-valued slots (cache_time, expires, etag) *)
None == -1000

(* Program constants *)
DefaultCacheTime == 86400
RetryStop == 4
StatusNotModified == 304
StatusFetchFailure == 500
TupleLen == 3

(* Values the environment draws *)
CacheTimes == {None, 0, 1}
HeadStatuses == {200, StatusNotModified}
ETags == {1, 2}
GetKinds == {"ok", "fail", "invalid"}

----------------------------------------------------------------------------
(* Documents.  An OpenAPIWrapper is identified by the object (id) and by   *)
(* the description it was built from (spec).  Junk stands for a cached     *)
(* value of the wrong shape held where a document is expected.             *)

NoneDoc == [tag |-> "none", id |-> 0, spec |-> 0]
Junk == [tag |-> "junk", id |-> 0, spec |-> 0]
OpenAPIWrapper(id, spec) == [tag |-> "doc", id |-> id, spec |-> spec]

IsDocument(d) == d.tag = "doc"

(* URLs are sequences of segments. *)
MetaUrl == <<"https://esi.evetech.net", "swagger.json">>
LatestUrl == <<"//esi.evetech.net", "latest", "swagger.json">>
StatusUrl == <<"status">>
OpUrls == {LatestUrl, StatusUrl}

Datasource == "tranquility"
CachePrefix == "esipy"
Prefixes == {CachePrefix, "other"}

(* The descriptions the server serves: the operations each declares with   *)
(* the path each is declared at (OperationsCollection, OperationProxy.url) *)
MetaSpecs == {1, 2}
LeafSpecs == {3}

OperationsOf(spec) ==
    CASE spec = 1 -> [get_latest |-> LatestUrl, get_status |-> StatusUrl]
      [] OTHER -> [get_status |-> StatusUrl]

Names == {"op", "get_latest", "get_status", "get_missing"}

(* Headers of a response: a mapping with optional expires and etag; the    *)
(* cached slot may also hold no mapping at all (NoHeaders).                *)
NoHeaders == [isNone |-> TRUE, expires |-> None, etag |-> None]
Headers(expires, etag) == [isNone |-> FALSE, expires |-> expires, etag |-> etag]

----------------------------------------------------------------------------
(* Cache keys *)

esi_meta_cache_key == <<CachePrefix, "app", "meta_swagger_url">>
NestedCacheKey(prefix, url) == <<prefix, "app">> \o url
Keys == {esi_meta_cache_key} \cup {NestedCacheKey(p, u) : p \in Prefixes, u \in OpUrls}
OwnKeys == {k \in Keys : k[1] = CachePrefix}

ExpireOf(cache_time) ==
    IF cache_time # None /\ cache_time < 0 THEN DefaultCacheTime ELSE cache_time

AppUrl(url) == url \o <<"?datasource=", Datasource>>

----------------------------------------------------------------------------
(* The cache adapter: get(key, default), set(key, value, expire),          *)
(* invalidate(key).  A stored value is the 3-tuple (app, headers, expiry), *)
(* or whatever else somebody put under the key: None, or a value of        *)
(* another length.  The adapter keeps the expire it was given.             *)

Tuple3(a, h, e) == [isNone |-> FALSE, len |-> TupleLen, app |-> a, headers |-> h, expiry |-> e]
NoneValue == [isNone |-> TRUE, len |-> 0, app |-> NoneDoc, headers |-> NoHeaders, expiry |-> 0]
ShortValue == [isNone |-> FALSE, len |-> 2, app |-> NoneDoc, headers |-> NoHeaders, expiry |-> 0]
DefaultValue == Tuple3(NoneDoc, NoHeaders, 0)

Absent == [present |-> FALSE, value |-> NoneValue, ttl |-> 0, setAt |-> 0]
Stored(v, ttl, t) == [present |-> TRUE, value |-> v, ttl |-> ttl, setAt |-> t]

EmptyCache == [k \in Keys |-> Absent]

CacheGet(c, useCache, key, default) ==
    IF ~useCache THEN NoneValue
    ELSE IF c[key].present THEN c[key].value ELSE default

CacheSet(c, useCache, key, value, ttl, t) ==
    IF ~useCache THEN c ELSE [c EXCEPT ![key] = Stored(value, ttl, t)]

CacheInvalidate(c, key) == [c EXCEPT ![key] = Absent]

(* utils.get_cache_time_left: seconds until the expires header's instant *)
get_cache_time_left(expires, t) == IF expires = None THEN 0 ELSE expires - t

----------------------------------------------------------------------------
(* __get_or_create_app, piece by piece *)

(* lines 251-255: a None or wrongly sized value is unpacked as (cached, None, 0) *)
Malformed(cached) == cached.isNone \/ cached.len # TupleLen

Unpack(cached) ==
    IF Malformed(cached)
    THEN [app |-> IF cached.isNone THEN NoneDoc ELSE Junk,
          headers |-> NoHeaders, expiry |-> 0]
    ELSE [app |-> cached.app, headers |-> cached.headers, expiry |-> cached.expiry]

(* line 257 *)
HasEntry(cached_app, cached_headers) ==
    cached_app # NoneDoc /\ ~cached_headers.isNone

(* line 261: the header branch is taken when no custom expire is set and    *)
(* the cached headers carry expires                                        *)
UseHeaderExpiry(exp, expires) == exp = None /\ expires # None

(* lines 260-264 *)
CacheTimeout(exp, expires, t) ==
    IF UseHeaderExpiry(exp, expires) THEN get_cache_time_left(expires, t) ELSE -1

(* variants of IsFresh: without the exp = 0 clause of line 270; with 0     *)
(* read as "do not cache"; with a strict comparison of the expiry          *)
IsFreshWithoutZero(exp, expires, cached_expiry, t) ==
    IF UseHeaderExpiry(exp, expires)
    THEN CacheTimeout(exp, expires, t) >= 0
    ELSE cached_expiry >= t

IsFreshZeroDisables(exp, expires, cached_expiry, t) ==
    IF UseHeaderExpiry(exp, expires)
    THEN CacheTimeout(exp, expires, t) >= 0
    ELSE exp # 0 /\ cached_expiry >= t

IsFreshStrict(exp, expires, cached_expiry, t) ==
    IF UseHeaderExpiry(exp, expires)
    THEN CacheTimeout(exp, expires, t) >= 0
    ELSE exp = 0 \/ cached_expiry > t

(* lines 261-271: the two places that return cached_app *)
IsFresh(exp, expires, cached_expiry, t) ==
    IF UseHeaderExpiry(exp, expires)
    THEN CacheTimeout(exp, expires, t) >= 0
    ELSE exp = 0 \/ cached_expiry >= t

(* variant of MustInvalidate: the etag is not looked at *)
MustInvalidateAnyway(exp, expires, cached_expiry, etag, t) ==
    expires = None \/ CacheTimeout(exp, expires, t) < 0 \/ cached_expiry < t

(* lines 279-281 *)
MustInvalidate(exp, expires, cached_expiry, etag, t) ==
    /\ (expires = None \/ CacheTimeout(exp, expires, t) < 0 \/ cached_expiry < t)
    /\ etag = None

(* variant of Timeout: time.time() is left out of the sum *)
TimeoutRelative(exp, t) == IF exp # None /\ exp > 0 THEN exp ELSE 0

(* lines 284-286 *)
Timeout(exp, t) == IF exp # None /\ exp > 0 THEN t + exp ELSE 0

(* lines 290-295 *)
Expiration(exp, resHeaders, t) ==
    IF exp # None /\ exp > 0 THEN exp ELSE get_cache_time_left(resHeaders.expires, t)

(* variant of NotModified: the wrong status is compared *)
NotModifiedOnOk(status, cached_app) == status = 200 /\ cached_app # NoneDoc

(* line 296 *)
NotModified(status, cached_app) == status = StatusNotModified /\ cached_app # NoneDoc

(* lines 307-324: the attempt that ends the loop, RetryStop when none does. *)
(* "fail" is an HTTPError or requests.RequestException (caught, next       *)
(* attempt); "invalid" is a body OpenAPIWrapper rejects (not caught).      *)
(* variant of LastAttempt: the loop stops one attempt early *)
RECURSIVE LastAttemptShort(_, _)
LastAttemptShort(gets, retry) ==
    IF retry >= RetryStop - 1 THEN RetryStop
    ELSE IF gets[retry] = "fail" THEN LastAttemptShort(gets, retry + 1)
    ELSE retry

RECURSIVE LastAttempt(_, _)
LastAttempt(gets, retry) ==
    IF retry >= RetryStop THEN RetryStop
    ELSE IF gets[retry] = "fail" THEN LastAttempt(gets, retry + 1)
    ELSE retry

GetsIssued(gets) ==
    IF LastAttempt(gets, 1) = RetryStop THEN RetryStop - 1 ELSE LastAttempt(gets, 1)

(* the request logs *)
HeadRequest(app_url, inm, head) ==
    [m |-> "HEAD", url |-> app_url, inm |-> inm,
     res |-> IF head.raised THEN "raised" ELSE ToString(head.status),
     headers |-> head.headers]
GetRequest(app_url, kind) ==
    [m |-> "GET", url |-> app_url, inm |-> None, res |-> kind, headers |-> NoHeaders]
CacheOp(op, key) == [op |-> op, key |-> key]

(* what a call raises: APIException(url, status), or an exception of the   *)
(* transport or of the document parser that nothing catches                *)
NoError == [type |-> "none", url |-> <<>>, status |-> 0]
APIException(url, status) == [type |-> "APIException", url |-> url, status |-> status]
RequestException(url) == [type |-> "RequestException", url |-> url, status |-> 0]
OpenAPIError(url) == [type |-> "OpenAPIError", url |-> url, status |-> 0]
AttributeError(what) == [type |-> "AttributeError", url |-> what, status |-> 0]
(* self.app.op on a value that is no document *)
NoOpAttribute == AttributeError(<<"op", "is no attribute of the value in self.app">>)

(* lines 250-255: the adapter is read and a malformed value dropped *)
ReadCached(c, cch, cache_key) ==
    LET cached == CacheGet(c, cch, cache_key, DefaultValue)
    IN  [pre |-> cached,
         app |-> Unpack(cached).app,
         headers |-> Unpack(cached).headers,
         expiry |-> Unpack(cached).expiry,
         cache |-> IF Malformed(cached) THEN CacheInvalidate(c, cache_key) ELSE c,
         cops |-> <<CacheOp("get", cache_key)>> \o
                  (IF Malformed(cached) THEN <<CacheOp("invalidate", cache_key)>>
                   ELSE <<>>)]

(* lines 257-271: the cached document is returned *)
UseCached(exp, t, rd) ==
    /\ HasEntry(rd.app, rd.headers)
    /\ IsFresh(exp, rd.headers.expires, rd.expiry, t)

(* variant of DropEntry: the entry without etag is dropped before the      *)
(* cached document is returned                                             *)
DropEntryWhenFresh(exp, t, rd) ==
    /\ HasEntry(rd.app, rd.headers)
    /\ MustInvalidate(exp, rd.headers.expires, rd.expiry, rd.headers.etag, t)

(* lines 273-281: an entry that is not returned and has no etag is dropped *)
DropEntry(exp, t, rd) ==
    /\ HasEntry(rd.app, rd.headers)
    /\ ~UseCached(exp, t, rd)
    /\ MustInvalidate(exp, rd.headers.expires, rd.expiry, rd.headers.etag, t)

(* variant of IfNoneMatch: the wrong header of the entry is sent *)
IfNoneMatchFromExpires(rd) ==
    IF HasEntry(rd.app, rd.headers) THEN rd.headers.expires ELSE None

(* variant of IfNoneMatch: the header is never added *)
IfNoneMatchForgotten(rd) == None

(* lines 274-276 *)
IfNoneMatch(rd) == IF HasEntry(rd.app, rd.headers) THEN rd.headers.etag ELSE None

(* lines 257-286: is the cached document returned; if not, the header to   *)
(* send, the invalidation of an entry without etag, the expiry to store    *)
Decide(cache_key, exp, t, rd) ==
    [pre |-> rd.pre,
     app |-> rd.app,
     fresh |-> UseCached(exp, t, rd),
     inm |-> IfNoneMatch(rd),
     cache |-> IF DropEntry(exp, t, rd)
               THEN CacheInvalidate(rd.cache, cache_key) ELSE rd.cache,
     cops |-> rd.cops \o
              (IF DropEntry(exp, t, rd) THEN <<CacheOp("invalidate", cache_key)>>
               ELSE <<>>),
     timeout |-> Timeout(exp, t)]

Outcome(d, c, out, ret, err, net, cops, built) ==
    [pre |-> d.pre, cache |-> c, out |-> out, ret |-> ret, err |-> err, net |-> net,
     cops |-> d.cops \o cops, built |-> built]

GetLog(app_url, gets) ==
    [i \in 1..GetsIssued(gets) |-> GetRequest(app_url, gets[i])]

(* lines 288-336: the HEAD probe, the 304 answer, the GET attempts *)
Fetch(app_url, cache_key, exp, cch, t, nid, head, gets, spec, d) ==
    IF d.fresh
    THEN Outcome(d, d.cache, "ok", d.app, NoError, <<>>, <<>>, 0)
    ELSE IF head.raised
    THEN Outcome(d, d.cache, "raised", NoneDoc, RequestException(app_url),
                 <<HeadRequest(app_url, d.inm, head)>>, <<>>, 0)
    ELSE IF NotModified(head.status, d.app)
    THEN Outcome(d, CacheSet(d.cache, cch, cache_key,
                             Tuple3(d.app, head.headers, d.timeout),
                             Expiration(exp, head.headers, t), t),
                 "ok", d.app, NoError, <<HeadRequest(app_url, d.inm, head)>>,
                 <<CacheOp("set", cache_key)>>, 0)
    ELSE IF LastAttempt(gets, 1) = RetryStop
    THEN Outcome(d, d.cache, "raised", NoneDoc,
                 APIException(app_url, StatusFetchFailure),
                 <<HeadRequest(app_url, d.inm, head)>> \o GetLog(app_url, gets), <<>>, 0)
    ELSE IF gets[LastAttempt(gets, 1)] = "invalid"
    THEN Outcome(d, d.cache, "raised", NoneDoc, OpenAPIError(app_url),
                 <<HeadRequest(app_url, d.inm, head)>> \o GetLog(app_url, gets), <<>>, 0)
    ELSE Outcome(d,
                 IF cch
                 THEN CacheSet(d.cache, cch, cache_key,
                               Tuple3(OpenAPIWrapper(nid, spec), head.headers, d.timeout),
                               Expiration(exp, head.headers, t), t)
                 ELSE d.cache,
                 "ok", OpenAPIWrapper(nid, spec), NoError,
                 <<HeadRequest(app_url, d.inm, head)>> \o GetLog(app_url, gets),
                 IF cch THEN <<CacheOp("set", cache_key)>> ELSE <<>>, 1)

(* lines 242-336.  c: the adapter's store, exp: self.expire, cch:          *)
(* self.caching, t: time.time(), nid: the next object identity, head: the  *)
(* answer to requests.head, gets: the answers to the three requests.get,   *)
(* spec: the description the server serves at url.                         *)
get_or_create_app(url, cache_key, c, exp, cch, t, nid, head, gets, spec) ==
    Fetch(AppUrl(url), cache_key, exp, cch, t, nid, head, gets, spec,
          Decide(cache_key, exp, t, ReadCached(c, cch, cache_key)))

----------------------------------------------------------------------------
(* The transport's answers.  A request that is not sent has no answer, so  *)
(* the attempts after the one that ends the loop are left at "fail".       *)

HeadRaised == [raised |-> TRUE, status |-> 0, headers |-> NoHeaders]
(* The meta document's server always sends expires and etag; the servers  *)
(* of the referenced documents may leave either out.                       *)
HeadersAt(url, t) ==
    IF url = MetaUrl THEN {Headers(t + 1, CHOOSE g \in ETags : TRUE)}
    ELSE {Headers(e, g) : e \in {None, t + 1}, g \in {None} \cup ETags}

HeadAnswers(url, t) ==
    {HeadRaised} \cup
    {[raised |-> FALSE, status |-> st, headers |-> h] :
        st \in HeadStatuses, h \in HeadersAt(url, t)}

GetAnswers(nid) ==
    {g \in [1..(RetryStop - 1) -> GetKinds] :
        /\ \A i \in 1..(RetryStop - 1) : \A j \in 1..(RetryStop - 1) :
              (i < j /\ g[i] # "fail") => g[j] = "fail"
        /\ (nid > MaxDocs) => \A i \in 1..(RetryStop - 1) : g[i] # "ok"}

SpecsAt(url) == IF url = MetaUrl THEN MetaSpecs ELSE LeafSpecs

AllFail == [i \in 1..(RetryStop - 1) |-> "fail"]

(* One exchange with the server: the HEAD answer, the GET answers and the *)
(* description served.                                                     *)
NoRun == [head |-> HeadRaised, gets |-> AllFail, spec |-> 0]
Run(h, g, sp) == [head |-> h, gets |-> g, spec |-> sp]

----------------------------------------------------------------------------
(* Resolutions *)

Resolve(url, cache_key, c, t, nid, run) ==
    get_or_create_app(url, cache_key, c, expire, caching, t, nid,
                      run.head, run.gets, run.spec)

(* no resolution took place *)
NotResolved(c) ==
    [pre |-> DefaultValue, cache |-> c, out |-> "ok", ret |-> NoneDoc, err |-> NoError,
     net |-> <<>>, cops |-> <<>>, built |-> 0]

(* The exchanges a resolution can have.  The answers are drawn only for   *)
(* the requests the resolution sends: none when it returns the cached     *)
(* document, no GET answers when the HEAD ends it.                         *)
RunsAfter(url, t, nid, d) ==
    IF d.fresh THEN {NoRun}
    ELSE {NoRun} \cup
         UNION {IF NotModified(h.status, d.app)
                THEN {Run(h, AllFail, 0)}
                ELSE {Run(h, g, sp) : g \in GetAnswers(nid), sp \in SpecsAt(url)}
                : h \in HeadAnswers(url, t) \ {HeadRaised}}

Runs(url, cache_key, c, t, nid) ==
    RunsAfter(url, t, nid, Decide(cache_key, expire, t, ReadCached(c, caching, cache_key)))

(* variant of GetApp: the root is resolved again at every read *)
GetAppRefreshing(a, c, t, nid, run) ==
    LET r == Resolve(MetaUrl, esi_meta_cache_key, c, t, nid, run)
    IN  [app |-> IF r.out = "ok" THEN r.ret ELSE a, r |-> r, resolved |-> TRUE]

(* __getattribute__('app'), lines 361-371: the root is resolved again when *)
(* the slot holds None, and kept in the slot when that succeeds.           *)
GetApp(a, c, t, nid, run) ==
    IF a # NoneDoc
    THEN [app |-> a, r |-> NotResolved(c), resolved |-> FALSE]
    ELSE LET r == Resolve(MetaUrl, esi_meta_cache_key, c, t, nid, run)
         IN  [app |-> IF r.out = "ok" THEN r.ret ELSE a, r |-> r, resolved |-> TRUE]

RootRuns ==
    IF app = NoneDoc THEN Runs(MetaUrl, esi_meta_cache_key, cache, now, nextId) ELSE {NoRun}

(* line 354 *)
IsSwaggerEndpoint(url) == \E i \in DOMAIN url : url[i] = "swagger.json"

(* line 355 *)
SpecUrl(url) == <<"https:">> \o url

----------------------------------------------------------------------------
(* What a call did.  For each resolution in it: the key, the value read    *)
(* from the adapter (pre), what the adapter holds under the key afterwards *)
(* (post), what it returned or raised, the requests it sent (net), the     *)
(* adapter operations it made (cops) and the documents it built.  For the  *)
(* call: what it returned or raised and its own adapter operations.        *)

NoRec ==
    [key |-> <<>>, pre |-> DefaultValue, post |-> Absent, out |-> "ok", ret |-> NoneDoc,
     err |-> NoError, net |-> <<>>, cops |-> <<>>, built |-> 0]

Rec(key, r) ==
    [key |-> key, pre |-> r.pre, post |-> r.cache[key], out |-> r.out, ret |-> r.ret,
     err |-> r.err, net |-> r.net, cops |-> r.cops, built |-> r.built]

RootRec(g) == IF g.resolved THEN Rec(esi_meta_cache_key, g.r) ELSE NoRec

Idle ==
    [op |-> "idle", name |-> "", out |-> "ok", ret |-> NoneDoc, err |-> NoError,
     cops |-> <<>>, root |-> NoRec, nested |-> NoRec]

Returned(op, name, ret, cops, root, nested) ==
    [op |-> op, name |-> name, out |-> "ok", ret |-> ret, err |-> NoError,
     cops |-> cops, root |-> root, nested |-> nested]

Raise(op, name, err, root, nested) ==
    [op |-> op, name |-> name, out |-> "raised", ret |-> NoneDoc, err |-> err,
     cops |-> <<>>, root |-> root, nested |-> nested]

----------------------------------------------------------------------------
(* Concurrent resolvers: callers that run __get_or_create_app for the same *)
(* key on the same adapter at the same time.  Each has the method's local  *)
(* variables: cached_app, the If-None-Match header, timeout, res.headers,  *)
(* expiration, the tuple to store and the attempt of the retry loop.       *)
Resolvers == {1, 2}

NoLoc ==
    [app |-> NoneDoc, inm |-> None, timeout |-> 0, headers |-> NoHeaders, ttl |-> 0,
     value |-> DefaultValue, retry |-> 0]

(* no resolver is running *)
NoRace ==
    /\ pc = [r \in Resolvers |-> "idle"]
    /\ loc = [r \in Resolvers |-> NoLoc]
    /\ server = 1
    /\ stored = 0

----------------------------------------------------------------------------
(* The constructor, lines 209-240: the state of a registry that was built. *)
Built(r) ==
    /\ r.out = "ok"
    /\ cache = r.cache
    /\ app = r.ret
    /\ nextId = 1 + r.built
    /\ last = Returned("init", "", r.ret, <<>>, Rec(esi_meta_cache_key, r), NoRec)

Init ==
    /\ \E cache_time \in CacheTimes : expire = ExpireOf(cache_time)
    /\ caching \in BOOLEAN
    /\ now = 0
    /\ NoRace
    /\ \E run \in Runs(MetaUrl, esi_meta_cache_key, EmptyCache, 0, 1) :
          Built(Resolve(MetaUrl, esi_meta_cache_key, EmptyCache, 0, 1, run))

(* a caller reads self.app *)
ReadAppStep(g) ==
    /\ app' = g.app
    /\ cache' = g.r.cache
    /\ nextId' = nextId + g.r.built
    /\ last' = IF g.r.out = "ok"
               THEN Returned("app", "app", g.app, <<>>, RootRec(g), NoRec)
               ELSE Raise("app", "app", g.r.err, RootRec(g), NoRec)
    /\ UNCHANGED <<expire, caching, now>>
    /\ UNCHANGED raceVars

ReadApp ==
    /\ last = Idle
    /\ \E run \in RootRuns : ReadAppStep(GetApp(app, cache, now, nextId, run))

(* variant of GetAttrKind: the test of line 354 is left out *)
GetAttrKindUnchecked(name, g) ==
    IF g.r.out # "ok" THEN "root-raised"
    ELSE IF ~IsDocument(g.app) THEN "not-a-document"
    ELSE IF name = "op" THEN "op"
    ELSE IF name \notin DOMAIN OperationsOf(g.app.spec) THEN "unknown"
    ELSE "nested"

(* __getattr__, lines 338-359.  self.app.op of lines 346 and 349 raises    *)
(* AttributeError when self.app holds a value that is no document.         *)
GetAttrKind(name, g) ==
    IF g.r.out # "ok" THEN "root-raised"
    ELSE IF ~IsDocument(g.app) THEN "not-a-document"
    ELSE IF name = "op" THEN "op"
    ELSE IF name \notin DOMAIN OperationsOf(g.app.spec) THEN "unknown"
    ELSE IF IsSwaggerEndpoint(OperationsOf(g.app.spec)[name]) THEN "nested"
    ELSE "plain"

(* variant of ResolveNested: the document is cached under the meta key *)
ResolveNestedUnderMeta(url, c, t, nid, run) ==
    Resolve(SpecUrl(url), esi_meta_cache_key, c, t, nid, run)

(* lines 355-357 *)
ResolveNested(url, c, t, nid, run) ==
    Resolve(SpecUrl(url), NestedCacheKey(CachePrefix, url), c, t, nid, run)

NestedRuns(url, c, t, nid) ==
    Runs(SpecUrl(url), NestedCacheKey(CachePrefix, url), c, t, nid)

GetAttrNested(name, g, cache_key, r) ==
    /\ app' = g.app
    /\ cache' = r.cache
    /\ nextId' = nextId + g.r.built + r.built
    /\ last' = IF r.out = "ok"
               THEN Returned("getattr", name, r.ret, <<>>, RootRec(g), Rec(cache_key, r))
               ELSE Raise("getattr", name, r.err, RootRec(g), Rec(cache_key, r))
    /\ UNCHANGED <<expire, caching, now>>
    /\ UNCHANGED raceVars

GetAttrOther(name, g, kind) ==
    /\ app' = g.app
    /\ cache' = g.r.cache
    /\ nextId' = nextId + g.r.built
    /\ last' =
          CASE kind = "root-raised" -> Raise("getattr", name, g.r.err, RootRec(g), NoRec)
            [] kind = "not-a-document" ->
                 Raise("getattr", name, NoOpAttribute, RootRec(g), NoRec)
            [] kind = "op" -> Returned("getattr", name, g.app, <<>>, RootRec(g), NoRec)
            [] kind = "unknown" ->
                 Raise("getattr", name,
                       AttributeError(<<name, "is not a valid operation">>),
                       RootRec(g), NoRec)
            [] OTHER ->
                 Raise("getattr", name,
                       AttributeError(<<name, "is not a swagger endpoint">>),
                       RootRec(g), NoRec)
    /\ UNCHANGED <<expire, caching, now>>
    /\ UNCHANGED raceVars

GetAttrStep(name, g, url) ==
    IF GetAttrKind(name, g) = "nested"
    THEN \E run \in NestedRuns(url, g.r.cache, now, nextId + g.r.built) :
            GetAttrNested(name, g, NestedCacheKey(CachePrefix, url),
                          ResolveNested(url, g.r.cache, now, nextId + g.r.built, run))
    ELSE GetAttrOther(name, g, GetAttrKind(name, g))

OperationUrl(name, document) ==
    IF name \in DOMAIN OperationsOf(document.spec)
    THEN OperationsOf(document.spec)[name] ELSE <<>>

GetAttrFrom(name, g) == GetAttrStep(name, g, OperationUrl(name, g.app))

GetAttr(name) ==
    /\ last = Idle
    /\ \E rootRun \in RootRuns :
          GetAttrFrom(name, GetApp(app, cache, now, nextId, rootRun))

(* clear_cached_endpoints, lines 373-387 *)
NoPrefix == "<None>"

RECURSIVE InvalidateAll(_, _)
InvalidateAll(c, keys) ==
    IF keys = {} THEN c
    ELSE LET k == CHOOSE x \in keys : TRUE
         IN  InvalidateAll(CacheInvalidate(c, k), keys \ {k})

RECURSIVE InvalidateLog(_)
InvalidateLog(keys) ==
    IF keys = {} THEN <<>>
    ELSE LET k == CHOOSE x \in keys : TRUE
         IN  <<CacheOp("invalidate", k)>> \o InvalidateLog(keys \ {k})

(* line 382 *)
ClearPrefix(prefix) == IF prefix # NoPrefix THEN prefix ELSE CachePrefix

(* lines 383-384 *)
EndpointKeys(prefix, document) ==
    {NestedCacheKey(prefix, OperationsOf(document.spec)[n]) :
        n \in DOMAIN OperationsOf(document.spec)}

(* variant of ClearedCache: the meta key is left in place *)
ClearedCacheWithoutMeta(c, keys) == InvalidateAll(c, keys)

(* lines 383-386 *)
ClearedCache(c, keys) == CacheInvalidate(InvalidateAll(c, keys), esi_meta_cache_key)

ClearStep(prefix, g, keys) ==
    /\ nextId' = nextId + g.r.built
    /\ IF g.r.out = "ok" /\ IsDocument(g.app)
       THEN /\ cache' = ClearedCache(g.r.cache, keys)
            /\ app' = NoneDoc
            /\ last' = Returned("clear", prefix, NoneDoc,
                                InvalidateLog(keys) \o
                                <<CacheOp("invalidate", esi_meta_cache_key)>>,
                                RootRec(g), NoRec)
       ELSE /\ cache' = g.r.cache
            /\ app' = g.app
            /\ last' = Raise("clear", prefix,
                             IF g.r.out = "ok" THEN NoOpAttribute ELSE g.r.err,
                             RootRec(g), NoRec)
    /\ UNCHANGED <<expire, caching, now>>
    /\ UNCHANGED raceVars

ClearFrom(prefix, g) ==
    ClearStep(prefix, g,
              IF IsDocument(g.app) THEN EndpointKeys(ClearPrefix(prefix), g.app) ELSE {})

clear_cached_endpoints(prefix) ==
    /\ last = Idle
    /\ \E rootRun \in RootRuns :
          ClearFrom(prefix, GetApp(app, cache, now, nextId, rootRun))

(* the caller takes what the call returned or raised *)
Return ==
    /\ last # Idle
    /\ last' = Idle
    /\ UNCHANGED <<expire, caching, cache, app, now, nextId>>
    /\ UNCHANGED raceVars

----------------------------------------------------------------------------
(* The environment *)

Tick ==
    /\ last = Idle
    /\ now < MaxTime
    /\ now' = now + 1
    /\ UNCHANGED <<expire, caching, cache, app, nextId, last>>
    /\ UNCHANGED raceVars

(* the adapter drops an entry whose expire has run out (adapters that keep *)
(* no expiry never take this step)                                         *)
AdapterExpire(key) ==
    /\ last = Idle
    /\ cache[key].present
    /\ cache[key].ttl > 0
    /\ now >= cache[key].setAt + cache[key].ttl
    /\ cache' = [cache EXCEPT ![key] = Absent]
    /\ UNCHANGED <<expire, caching, app, now, nextId, last>>
    /\ UNCHANGED raceVars

(* somebody else writes a value of another shape under a key *)
Corrupt(key, value) ==
    /\ last = Idle
    /\ caching
    /\ cache[key] # Stored(value, 0, 0)
    /\ cache' = [cache EXCEPT ![key] = Stored(value, 0, 0)]
    /\ UNCHANGED <<expire, caching, app, now, nextId, last>>
    /\ UNCHANGED raceVars

ResolvedKeys ==
    {esi_meta_cache_key} \cup
    {NestedCacheKey(CachePrefix, u) : u \in {x \in OpUrls : IsSwaggerEndpoint(x)}}

Next ==
    \/ ReadApp
    \/ \E name \in Names : GetAttr(name)
    \/ \E prefix \in {NoPrefix, "other"} : clear_cached_endpoints(prefix)
    \/ Return
    \/ Tick
    \/ \E key \in ResolvedKeys : AdapterExpire(key)
    \/ \E key \in ResolvedKeys : \E value \in {NoneValue, ShortValue} : Corrupt(key, value)

Spec == Init /\ [][Next]_vars

----------------------------------------------------------------------------
(* Concurrent resolutions of the meta key.  __get_or_create_app holds no   *)
(* lock: between its adapter operations and its requests another resolver  *)
(* may run.  Each step below is one adapter operation or one request with  *)
(* the statements that follow it; the server's document changes meanwhile. *)
(* Each resolver makes one call ("idle" until it starts, "done" after).    *)

RaceKey == esi_meta_cache_key

Versions == ETags

Max(a, b) == IF a >= b THEN a ELSE b

Goto(r, label, locals) ==
    /\ pc' = [pc EXCEPT ![r] = label]
    /\ loc' = [loc EXCEPT ![r] = IF label = "done" THEN NoLoc ELSE locals]

(* lines 250-286: self.cache.get and the decision *)
RaceReadStep(r, rd, d) ==
    /\ cache' = rd.cache
    /\ Goto(r, IF d.fresh THEN "done"
               ELSE IF DropEntry(expire, now, rd) THEN "drop" ELSE "head",
            [NoLoc EXCEPT !.app = d.app, !.inm = d.inm, !.timeout = d.timeout])
    /\ UNCHANGED <<expire, caching, app, now, nextId, last, server, stored>>

RaceReadFrom(r, rd) == RaceReadStep(r, rd, Decide(RaceKey, expire, now, rd))

RaceRead(r) ==
    /\ pc[r] = "idle"
    /\ RaceReadFrom(r, ReadCached(cache, caching, RaceKey))

(* line 281: self.cache.invalidate of an entry without etag *)
RaceDrop(r) ==
    /\ pc[r] = "drop"
    /\ cache' = CacheInvalidate(cache, RaceKey)
    /\ Goto(r, "head", loc[r])
    /\ UNCHANGED <<expire, caching, app, now, nextId, last, server, stored>>

(* the server's answers to HEAD: the etag, when sent, names the version *)
RaceHeadAnswers ==
    {HeadRaised} \cup
    {[raised |-> FALSE, status |-> st, headers |-> Headers(now + 1, g)] :
        st \in HeadStatuses, g \in {None, server}}

(* lines 289-302: requests.head, expiration, the 304 answer *)
RaceHeadStep(r, head) ==
    /\ IF head.raised
       THEN Goto(r, "done", NoLoc)
       ELSE IF NotModified(head.status, loc[r].app)
       THEN Goto(r, "store",
                 [loc[r] EXCEPT !.headers = head.headers,
                                !.ttl = Expiration(expire, head.headers, now),
                                !.value = Tuple3(loc[r].app, head.headers, loc[r].timeout)])
       ELSE Goto(r, "get",
                 [loc[r] EXCEPT !.headers = head.headers,
                                !.ttl = Expiration(expire, head.headers, now),
                                !.retry = 1])
    /\ UNCHANGED <<expire, caching, cache, app, now, nextId, last, server, stored>>

RaceHead(r) ==
    /\ pc[r] = "head"
    /\ \E head \in RaceHeadAnswers : RaceHeadStep(r, head)

(* lines 307-331: one attempt of the retry loop; the document built has    *)
(* the version the server serves at that moment                            *)
RaceGetStep(r, kind) ==
    /\ (kind = "ok") => nextId <= MaxDocs
    /\ CASE kind = "ok" ->
              /\ Goto(r, "store",
                      [loc[r] EXCEPT !.value = Tuple3(OpenAPIWrapper(nextId, server),
                                                      loc[r].headers, loc[r].timeout)])
              /\ nextId' = nextId + 1
         [] kind = "fail" /\ loc[r].retry + 1 < RetryStop ->
              /\ Goto(r, "get", [loc[r] EXCEPT !.retry = loc[r].retry + 1])
              /\ nextId' = nextId
         [] OTHER ->
              /\ Goto(r, "done", NoLoc)
              /\ nextId' = nextId
    /\ UNCHANGED <<expire, caching, cache, app, now, last, server, stored>>

RaceGet(r) ==
    /\ pc[r] = "get"
    /\ \E kind \in GetKinds : RaceGetStep(r, kind)

(* variant of WriteBack: a version older than the one held is not written *)
WriteBackIfNewer(c, cch, key, value, ttl, t) ==
    IF c[key].present /\ c[key].value.app.spec > value.app.spec
    THEN c ELSE CacheSet(c, cch, key, value, ttl, t)

(* lines 297-301 and 333-334: self.cache.set *)
WriteBack(c, cch, key, value, ttl, t) ==
    IF cch THEN CacheSet(c, cch, key, value, ttl, t) ELSE c

RaceStore(r) ==
    /\ pc[r] = "store"
    /\ cache' = WriteBack(cache, caching, RaceKey, loc[r].value, loc[r].ttl, now)
    /\ stored' = Max(stored, loc[r].value.app.spec)
    /\ Goto(r, "done", NoLoc)
    /\ UNCHANGED <<expire, caching, app, now, nextId, last, server>>

(* the document changes on the server *)
ServerUpdate ==
    /\ server + 1 \in Versions
    /\ server' = server + 1
    /\ UNCHANGED <<expire, caching, cache, app, now, nextId, last, pc, loc, stored>>

RaceTick ==
    /\ now < MaxTime
    /\ now' = now + 1
    /\ UNCHANGED <<expire, caching, cache, app, nextId, last, pc, loc, server, stored>>

(* the adapter when the resolvers start: empty, or holding what a          *)
(* resolution at time 0 stored (no document has been stored: stored = 0)   *)
RaceStart(earlier) ==
    /\ earlier.out = "ok"
    /\ cache = earlier.cache
    /\ nextId = 1 + earlier.built

InitRace ==
    /\ \E cache_time \in CacheTimes : expire = ExpireOf(cache_time)
    /\ caching = TRUE
    /\ \/ cache = EmptyCache /\ nextId = 1
       \/ \E g \in {None, 1} :
             RaceStart(Resolve(MetaUrl, RaceKey, EmptyCache, 0, 1,
                               Run([raised |-> FALSE, status |-> 200,
                                    headers |-> Headers(1, g)],
                                   [i \in 1..(RetryStop - 1) |-> "ok"], 1)))
    /\ app = NoneDoc
    /\ now = 0
    /\ last = Idle
    /\ NoRace

NextRace ==
    \/ \E r \in Resolvers : RaceRead(r)
    \/ \E r \in Resolvers : RaceDrop(r)
    \/ \E r \in Resolvers : RaceHead(r)
    \/ \E r \in Resolvers : RaceGet(r)
    \/ \E r \in Resolvers : RaceStore(r)
    \/ ServerUpdate
    \/ RaceTick
    \/ AdapterExpire(RaceKey)

SpecRace == InitRace /\ [][NextRace]_vars

----------------------------------------------------------------------------
(* Properties.  They speak of the resolutions of the call that has just    *)
(* returned: the root's (last.root) and a referenced document's            *)
(* (last.nested).                                                          *)

Resolutions == {x \in {last.root, last.nested} : x.key # <<>>}

HeadsOf(x) == SelectSeq(x.net, LAMBDA q : q.m = "HEAD")
GetsOf(x) == SelectSeq(x.net, LAMBDA q : q.m = "GET")

(* the value read is a 3-tuple with a document and headers *)
HasDocumentAndHeaders(v) ==
    ~v.isNone /\ v.len = TupleLen /\ v.app # NoneDoc /\ ~v.headers.isNone

ServedFromCache(x) == x.out = "ok" /\ x.net = <<>> /\ x.ret = x.pre.app /\ x.built = 0

(* the URL fetched for a key *)
UrlOfKey(key) ==
    IF key = esi_meta_cache_key THEN AppUrl(MetaUrl)
    ELSE AppUrl(SpecUrl(SubSeq(key, 3, Len(key))))

FixedTTL == expire # None /\ expire > 0

(* C1, as stated: with cache_time = 0 every resolution contacts the        *)
(* transport (at least a HEAD), whatever entry an earlier one stored.      *)
C1_AlwaysContactsTransport ==
    \A x \in Resolutions : expire = 0 => Len(HeadsOf(x)) >= 1

(* C1, amended: with cache_time = 0 a resolution contacts the transport    *)
(* exactly when the adapter returns no entry with document and headers;    *)
(* the second of two successive calls is answered from the entry the first *)
(* stored, as long as the adapter returns it.                              *)
C1_ContactsTransportOnlyWithoutEntry ==
    \A x \in Resolutions :
        expire = 0 => (Len(HeadsOf(x)) >= 1 <=> ~HasDocumentAndHeaders(x.pre))

C1_Witness ==
    \E x \in Resolutions :
        /\ expire = 0
        /\ HasDocumentAndHeaders(x.pre)
        /\ x.net = <<>>
        /\ now > 0

(* C2, as stated: under a fixed TTL t > 0 an entry stored at storedAt      *)
(* (expiry = storedAt + t) is served from the cache at every time          *)
(* < storedAt + t and not served from the cache at storedAt + t or later.  *)
C2_FreshStrictlyBeforeExpiry ==
    \A x \in Resolutions :
        (FixedTTL /\ HasDocumentAndHeaders(x.pre)) =>
            /\ now < x.pre.expiry => ServedFromCache(x)
            /\ now >= x.pre.expiry => Len(HeadsOf(x)) >= 1

(* C2, amended: the entry is served from the cache at every time           *)
(* <= storedAt + t at which the adapter returns it, and at no time         *)
(* > storedAt + t: such a resolution contacts the transport.               *)
C2_FreshUntilExpiry ==
    \A x \in Resolutions :
        (FixedTTL /\ HasDocumentAndHeaders(x.pre)) =>
            /\ now <= x.pre.expiry => ServedFromCache(x)
            /\ now > x.pre.expiry => Len(HeadsOf(x)) >= 1 /\ x.net[1].m = "HEAD"

C2_Witness ==
    \E x \in Resolutions :
        /\ FixedTTL
        /\ HasDocumentAndHeaders(x.pre)
        /\ now = x.pre.expiry
        /\ ServedFromCache(x)

C4_NotModifiedKeepsDocument ==
    \A x \in Resolutions :
        (/\ Len(HeadsOf(x)) >= 1
         /\ HeadsOf(x)[1].res = "304"
         /\ IsDocument(x.pre.app)) =>
            /\ x.out = "ok"
            /\ x.ret = x.pre.app
            /\ x.built = 0
            /\ GetsOf(x) = <<>>

C4_Witness ==
    \E x \in Resolutions :
        /\ Len(HeadsOf(x)) = 1
        /\ HeadsOf(x)[1].res = "304"
        /\ IsDocument(x.pre.app)
        /\ x.ret = x.pre.app

(* the in-memory root document a call works with: the one in the slot, or  *)
(* the one the call resolved when the slot was empty                       *)
RootAtCall == IF app # NoneDoc THEN app ELSE last'.root.ret

ClearedKeys == EndpointKeys(ClearPrefix(last'.name), RootAtCall)

(* C5, as stated, in its part on the keys: after clear_cached_endpoints    *)
(* returns, whatever its prefix argument, no key this registry resolved    *)
(* and stored still holds a document.                                      *)
C5_AllStoredKeysAbsent ==
    (last.op = "clear" /\ last.out = "ok") =>
        \A k \in ResolvedKeys : ~(cache[k].present /\ IsDocument(cache[k].value.app))

(* C5, amended: after clear_cached_endpoints returns, the in-memory root   *)
(* is cleared, the root key and the keys <p>:app:<url> of the operations   *)
(* of the in-memory root are absent, p being the prefix argument or        *)
(* cache_prefix by default, and every other key is as it was (the entries  *)
(* stored under cache_prefix stay when p is another prefix).  The next     *)
(* resolution of the root key, when the adapter holds nothing under it,    *)
(* sends one HEAD without If-None-Match and, when the HEAD returns, GETs.   *)
C5_ClearThenFullFetch ==
    [][/\ (last'.op = "clear" /\ last'.out = "ok") =>
             /\ app' = NoneDoc
             /\ ~cache'[esi_meta_cache_key].present
             /\ \A k \in ClearedKeys : ~cache'[k].present
             /\ \A k \in Keys \ (ClearedKeys \cup {esi_meta_cache_key}) :
                   cache'[k] = cache[k]
       /\ (last'.root.key # <<>> /\ ~cache[esi_meta_cache_key].present) =>
             /\ app = NoneDoc
             /\ ~HasDocumentAndHeaders(last'.root.pre)
             /\ Len(HeadsOf(last'.root)) = 1
             /\ last'.root.net[1].m = "HEAD"
             /\ last'.root.net[1].inm = None
             /\ last'.root.net[1].res # "raised" => Len(GetsOf(last'.root)) >= 1
      ]_vars

C5_Witness ==
    /\ last.op \in {"app", "getattr", "clear"}
    /\ last.root.key = esi_meta_cache_key
    /\ last.root.pre = DefaultValue
    /\ caching
    /\ Len(HeadsOf(last.root)) = 1
    /\ HeadsOf(last.root)[1].inm = None
    /\ Len(GetsOf(last.root)) >= 1
    /\ last.root.out = "ok"
    /\ last.root.built = 1
    /\ \E k \in ResolvedKeys \ {esi_meta_cache_key} : cache[k].present

(* C6: under the header policy (cache_time None) the first resolution on   *)
(* an empty cache stores (document, response headers, 0); an entry whose   *)
(* headers carry expires e and etag E is returned without any request at   *)
(* every time < e; after e the resolution sends a HEAD with                *)
(* If-None-Match: E, and on 304 it returns the same document, sends no GET *)
(* and stores the entry again with the headers of the 304 response.        *)
C6_HeaderDrivenScenario ==
    \A x \in Resolutions :
        expire = None =>
            /\ (x.pre = DefaultValue /\ x.out = "ok" /\ Len(GetsOf(x)) >= 1) =>
                  /\ x.built = 1
                  /\ x.post.present
                  /\ x.post.value = Tuple3(x.ret, HeadsOf(x)[1].headers, 0)
            /\ (/\ HasDocumentAndHeaders(x.pre)
                /\ x.pre.headers.expires # None
                /\ x.pre.headers.etag # None) =>
                  /\ now < x.pre.headers.expires => ServedFromCache(x)
                  /\ now > x.pre.headers.expires =>
                        /\ Len(HeadsOf(x)) = 1
                        /\ x.net[1].m = "HEAD"
                        /\ x.net[1].inm = x.pre.headers.etag
                        /\ x.net[1].res = "304" =>
                              /\ x.out = "ok"
                              /\ x.ret = x.pre.app
                              /\ x.built = 0
                              /\ GetsOf(x) = <<>>
                              /\ x.post.present
                              /\ x.post.value =
                                    Tuple3(x.pre.app, x.net[1].headers, 0)

C6_Witness ==
    \E x \in Resolutions :
        /\ expire = None
        /\ HasDocumentAndHeaders(x.pre)
        /\ x.pre.headers.expires # None
        /\ now > x.pre.headers.expires
        /\ x.net # <<>>
        /\ x.net[1].inm = x.pre.headers.etag
        /\ x.net[1].inm # None
        /\ x.net[1].res = "304"
        /\ x.ret = x.pre.app
        /\ x.post.value.headers = x.net[1].headers
        /\ x.post.value.headers # x.pre.headers

(* C7: when the adapter returns None or a value whose length is not 3, the *)
(* resolution invalidates the key and goes on as on an empty cache: the    *)
(* malformed value is never returned and never written back, and a         *)
(* resolution that returns returns a newly fetched document.               *)
C7_CorruptionAbsorbed ==
    \A x \in Resolutions :
        Malformed(x.pre) =>
            /\ x.cops[2] = CacheOp("invalidate", x.key)
            /\ x.ret # Junk
            /\ ~(x.post.present /\ x.post.value.app = Junk)
            /\ x.out = "ok" => (IsDocument(x.ret) /\ x.built = 1 /\ Len(GetsOf(x)) >= 1)

(* C8: a resolution raises only APIException(url, 500), and only after     *)
(* three attempts; no error of the transport itself reaches the caller.    *)
C8_OnlyFetchFailure ==
    \A x \in Resolutions :
        x.out = "raised" =>
            /\ x.err = APIException(UrlOfKey(x.key), StatusFetchFailure)
            /\ Len(GetsOf(x)) = RetryStop - 1

(* the root entry and the in-memory root when the nested resolution of a   *)
(* call starts: as the call found them, or as its own resolution of the    *)
(* root left them when the slot was empty                                  *)
RootEntryBeforeNested ==
    IF last'.root.key # <<>> THEN last'.root.post ELSE cache[esi_meta_cache_key]

RootBeforeNested == IF last'.root.key # <<>> THEN last'.root.ret ELSE app

(* C9: the resolution of a referenced document reads, writes and           *)
(* invalidates only the key <cache_prefix>:app:<url>; it leaves the root   *)
(* key's entry and the in-memory root as they were when it started, and    *)
(* every other key as it was; what it stores comes from its own exchange   *)
(* (the headers of its HEAD, its own expiry).  The adapter dropping the    *)
(* nested entry leaves the root entry and the in-memory root unchanged.    *)
C9_NestedIsolation ==
    [][/\ (last'.op = "getattr" /\ last'.nested.key # <<>>) =>
             /\ last'.nested.key =
                   NestedCacheKey(CachePrefix, OperationUrl(last'.name, RootBeforeNested))
             /\ last'.nested.key # esi_meta_cache_key
             /\ \A i \in DOMAIN last'.nested.cops :
                   last'.nested.cops[i].key = last'.nested.key
             /\ cache'[esi_meta_cache_key] = RootEntryBeforeNested
             /\ app' = RootBeforeNested
             /\ (last'.root.key = <<>>) =>
                   cache'[esi_meta_cache_key] = cache[esi_meta_cache_key] /\ app' = app
             /\ \A k \in Keys \ {last'.nested.key, esi_meta_cache_key} :
                   cache'[k] = cache[k]
             /\ (\E i \in DOMAIN last'.nested.cops : last'.nested.cops[i].op = "set") =>
                   /\ last'.nested.post.value.headers = last'.nested.net[1].headers
                   /\ last'.nested.post.value.expiry = Timeout(expire, now)
                   /\ last'.nested.post.setAt = now
       /\ \A k \in ResolvedKeys \ {esi_meta_cache_key} :
             (last' = Idle /\ last = Idle /\ cache[k].present /\ ~cache'[k].present) =>
                 cache'[esi_meta_cache_key] = cache[esi_meta_cache_key] /\ app' = app
      ]_vars

C9_Witness ==
    /\ last.op = "getattr"
    /\ last.nested.key = NestedCacheKey(CachePrefix, LatestUrl)
    /\ last.root.key = <<>>
    /\ HasDocumentAndHeaders(last.nested.pre)
    /\ CacheOp("invalidate", last.nested.key) \in {last.nested.cops[i] : i \in DOMAIN last.nested.cops}
    /\ last.nested.built = 1
    /\ last.nested.post.present
    /\ cache[esi_meta_cache_key].present
    /\ cache[esi_meta_cache_key].setAt < last.nested.post.setAt

(* C10: with cache_time = 0 a stored entry never expires: whenever the     *)
(* adapter returns an entry with a document and headers, the resolution    *)
(* returns that document, at any time, without a request and without       *)
(* touching the entry.                                                     *)
C10_ZeroNeverExpires ==
    \A x \in Resolutions :
        (expire = 0 /\ HasDocumentAndHeaders(x.pre)) =>
            /\ ServedFromCache(x)
            /\ x.cops = <<CacheOp("get", x.key)>>
            /\ x.post.present
            /\ x.post.value = x.pre

C10_Witness ==
    \E x \in Resolutions :
        /\ expire = 0
        /\ HasDocumentAndHeaders(x.pre)
        /\ x.pre.headers.expires # None
        /\ now > x.pre.headers.expires
        /\ now > x.pre.expiry
        /\ x.out = "ok"
        /\ x.ret = x.pre.app

(* the entry read is fresh under the active policy: under the header       *)
(* policy with an expires header, the header's instant has not passed;     *)
(* otherwise cache_time is 0 or the recorded expiry has not passed         *)
FreshUnderPolicy(v) ==
    IF expire = None /\ v.headers.expires # None
    THEN now <= v.headers.expires
    ELSE expire = 0 \/ now <= v.expiry

(* C11: when the entry read has a document and headers and is fresh under  *)
(* the active policy, the resolution returns the cached document, sends no *)
(* HEAD and no GET, makes no set and no invalidate, and leaves the entry   *)
(* exactly as it was.                                                      *)
C11_UseCachedFastPath ==
    \A x \in Resolutions :
        (HasDocumentAndHeaders(x.pre) /\ FreshUnderPolicy(x.pre)) =>
            /\ x.out = "ok"
            /\ x.ret = x.pre.app
            /\ x.built = 0
            /\ x.net = <<>>
            /\ x.cops = <<CacheOp("get", x.key)>>
            /\ x.post.present
            /\ x.post.value = x.pre
            /\ cache[x.key] = x.post

C11_Witness ==
    \E x \in Resolutions :
        /\ HasDocumentAndHeaders(x.pre)
        /\ FreshUnderPolicy(x.pre)
        /\ x.pre.headers.etag = None
        /\ now > 0
        /\ x.ret = x.pre.app
        /\ x.net = <<>>
        /\ cache[x.key].value = x.pre

(* C12: for a name other than 'op' and a resolved root document, a name    *)
(* the root does not declare raises AttributeError naming it; a declared   *)
(* name whose URL is no swagger.json reference raises AttributeError; in   *)
(* both cases no nested resolution takes place (no adapter operation, no   *)
(* request) and no nested key changes.  A declared name whose URL is a     *)
(* reference is resolved under <cache_prefix>:app:<url>, and the call ends *)
(* as that resolution ends.                                                *)
C12_OperationLookup ==
    [][(last'.op = "getattr" /\ last'.name # "op" /\ IsDocument(app')) =>
          /\ last'.root.out = "ok"
          /\ (last'.name \notin DOMAIN OperationsOf(app'.spec)) =>
                /\ last'.out = "raised"
                /\ last'.err = AttributeError(<<last'.name, "is not a valid operation">>)
                /\ last'.nested = NoRec
                /\ \A k \in Keys \ {esi_meta_cache_key} : cache'[k] = cache[k]
          /\ (/\ last'.name \in DOMAIN OperationsOf(app'.spec)
              /\ ~IsSwaggerEndpoint(OperationUrl(last'.name, app'))) =>
                /\ last'.out = "raised"
                /\ last'.err = AttributeError(<<last'.name, "is not a swagger endpoint">>)
                /\ last'.nested = NoRec
                /\ \A k \in Keys \ {esi_meta_cache_key} : cache'[k] = cache[k]
          /\ (/\ last'.name \in DOMAIN OperationsOf(app'.spec)
              /\ IsSwaggerEndpoint(OperationUrl(last'.name, app'))) =>
                /\ last'.nested.key =
                      NestedCacheKey(CachePrefix, OperationUrl(last'.name, app'))
                /\ last'.nested.cops[1] = CacheOp("get", last'.nested.key)
                /\ last'.out = last'.nested.out
                /\ last'.ret = last'.nested.ret
                /\ last'.err = last'.nested.err
      ]_vars

C12_Witness ==
    /\ last.op = "getattr"
    /\ last.name = "get_status"
    /\ last.root.key = esi_meta_cache_key
    /\ last.root.out = "ok"
    /\ app.spec = 1
    /\ last.err = AttributeError(<<"get_status", "is not a swagger endpoint">>)
    /\ last.nested = NoRec
    /\ cache[NestedCacheKey(CachePrefix, LatestUrl)].present

(* C13: the last write wins.  A resolver's cache.set stores the tuple it   *)
(* prepared from its own exchange, whatever the adapter holds by then, so  *)
(* a version older than one stored earlier can replace it: "the cached     *)
(* version never decreases" does not hold of concurrent resolvers (the     *)
(* state C13_Witness describes is reached).                                *)
C13_LastWriteWins ==
    [][\A r \in Resolvers :
          (pc[r] = "store" /\ pc'[r] = "done") =>
              /\ cache'[RaceKey] = Stored(loc[r].value, loc[r].ttl, now)
              /\ loc[r].value.app.spec <= server
              /\ stored' >= stored
      ]_vars

C13_Witness ==
    /\ cache[RaceKey].present
    /\ IsDocument(cache[RaceKey].value.app)
    /\ cache[RaceKey].value.app.spec < stored
    /\ \A r \in Resolvers : pc[r] = "done"

(* C14: a resolution that does not return the cached document sends        *)
(* exactly one HEAD, before any GET; one that returns it sends nothing.    *)
(* The HEAD carries If-None-Match exactly when the entry read has a        *)
(* document and headers with an etag, and the value is that etag.          *)
C14_ProbeFirst ==
    \A x \in Resolutions :
        /\ (x.net = <<>>) <=> (HasDocumentAndHeaders(x.pre) /\ FreshUnderPolicy(x.pre))
        /\ (x.net # <<>>) =>
              /\ x.net[1].m = "HEAD"
              /\ \A i \in 2..Len(x.net) : x.net[i].m = "GET"
              /\ x.net[1].url = UrlOfKey(x.key)
              /\ x.net[1].inm =
                    IF HasDocumentAndHeaders(x.pre) THEN x.pre.headers.etag ELSE None
              /\ (x.net[1].inm # None) <=>
                    (HasDocumentAndHeaders(x.pre) /\ x.pre.headers.etag # None)

C14_Witness ==
    \E x \in Resolutions :
        /\ Len(x.net) >= 2
        /\ x.net[1].m = "HEAD"
        /\ x.net[1].inm # None
        /\ x.net[1].inm = x.pre.headers.etag
        /\ x.pre.headers.expires # x.pre.headers.etag
        /\ x.net[2].m = "GET"

(* C15: under a fixed TTL t > 0, a resolution at time T that reads an      *)
(* expired entry with an etag and gets 304 writes back (the same document, *)
(* the headers of the 304 response, T + t) with adapter expire t and       *)
(* returns the document; and an entry read at a time not after its         *)
(* recorded expiry is returned without any request.                        *)
C15_NotModifiedExtendsLifetime ==
    \A x \in Resolutions :
        (FixedTTL /\ HasDocumentAndHeaders(x.pre)) =>
            /\ (/\ now > x.pre.expiry
                /\ x.pre.headers.etag # None
                /\ x.net # <<>>
                /\ x.net[1].res = "304") =>
                  /\ x.out = "ok"
                  /\ x.ret = x.pre.app
                  /\ Len(x.net) = 1
                  /\ x.net[1].inm = x.pre.headers.etag
                  /\ x.post = Stored(Tuple3(x.pre.app, x.net[1].headers, now + expire),
                                     expire, now)
                  /\ x.post.value.expiry > x.pre.expiry
            /\ (now <= x.pre.expiry) => (x.net = <<>> /\ x.ret = x.pre.app)

C15_Witness ==
    \E x \in Resolutions :
        /\ FixedTTL
        /\ HasDocumentAndHeaders(x.pre)
        /\ now > x.pre.expiry
        /\ x.pre.headers.etag # None
        /\ x.net # <<>>
        /\ x.net[1].res = "304"
        /\ x.post.present
        /\ x.post.value.app = x.pre.app
        /\ x.post.value.expiry = now + expire
        /\ x.post.ttl = expire
        /\ cache[x.key] = x.post

(* the adapter operations of a resolution that invalidate its key *)
Invalidations(x) == SelectSeq(x.cops, LAMBDA o : o.op = "invalidate")

(* C16: a resolution that reads an entry with document and headers that is *)
(* not fresh contacts the transport; it invalidates the key first exactly  *)
(* when the cached headers have no etag.  When it ends in APIException the *)
(* key is absent if the entry had no etag, and holds the unchanged entry   *)
(* if it had one; so too when the HEAD itself raises.                      *)
C16_InvalidateBeforeFetch ==
    \A x \in Resolutions :
        (HasDocumentAndHeaders(x.pre) /\ ~FreshUnderPolicy(x.pre)) =>
            /\ x.net # <<>>
            /\ (x.pre.headers.etag = None) =>
                  /\ Invalidations(x) = <<CacheOp("invalidate", x.key)>>
                  /\ x.cops[2] = CacheOp("invalidate", x.key)
                  /\ x.out = "raised" => ~x.post.present
            /\ (x.pre.headers.etag # None) =>
                  /\ Invalidations(x) = <<>>
                  /\ x.out = "raised" => (x.post.present /\ x.post.value = x.pre)

C16_Witness ==
    \E x \in Resolutions :
        /\ HasDocumentAndHeaders(x.pre)
        /\ ~FreshUnderPolicy(x.pre)
        /\ x.pre.headers.etag = None
        /\ x.err = APIException(UrlOfKey(x.key), StatusFetchFailure)
        /\ Len(GetsOf(x)) = RetryStop - 1
        /\ ~x.post.present
        /\ ~cache[x.key].present

(* the cache.set operations of a resolution *)
Sets(x) == SelectSeq(x.cops, LAMBDA o : o.op = "set")

SomeGetSucceeded(x) == \E i \in DOMAIN x.net : x.net[i].m = "GET" /\ x.net[i].res = "ok"

(* C17: with caching enabled a resolution sets its key at most once: the   *)
(* newly built document exactly when a GET attempt succeeded, or the       *)
(* cached document on the 304 path; a resolution that raises sets nothing; *)
(* every value set is a 3-tuple with a document and headers.               *)
C17_WritesOnSuccess ==
    \A x \in Resolutions :
        caching =>
            /\ Len(Sets(x)) <= 1
            /\ SomeGetSucceeded(x) <=> (Sets(x) # <<>> /\ x.built = 1)
            /\ SomeGetSucceeded(x) => x.post.value.app = x.ret
            /\ (Sets(x) # <<>> /\ x.built = 0) =>
                  /\ x.net[1].res = "304"
                  /\ x.post.value.app = x.pre.app
            /\ x.out = "raised" => Sets(x) = <<>>
            /\ Sets(x) # <<>> =>
                  /\ x.post.present
                  /\ x.post.value.len = TupleLen
                  /\ IsDocument(x.post.value.app)
                  /\ ~x.post.value.headers.isNone

(* a caller reads the root: self.app, or an attribute that __getattr__     *)
(* looks up in self.app.op                                                 *)
RootRead == last = Idle /\ last'.op \in {"app", "getattr"}

(* C18: a read of the root that finds the slot empty resolves the root     *)
(* again, asking the adapter first and then the transport; every read of   *)
(* the root yields a document or raises APIException(meta_url, 500), never *)
(* None; after a resolution that raised the slot is still empty.           *)
C18_RootNeverObservedEmpty ==
    [][RootRead =>
          /\ app = NoneDoc =>
                /\ last'.root.key = esi_meta_cache_key
                /\ last'.root.cops[1] = CacheOp("get", esi_meta_cache_key)
                /\ ~HasDocumentAndHeaders(last'.root.pre) => last'.root.net # <<>>
          /\ \/ last'.root.out = "ok" /\ IsDocument(app')
             \/ /\ last'.root.out = "raised"
                /\ last'.out = "raised"
                /\ last'.err = APIException(AppUrl(MetaUrl), StatusFetchFailure)
          /\ (last'.name \in {"app", "op"} /\ last'.out = "ok") => last'.ret = app'
          /\ last'.root.out = "raised" => app' = NoneDoc
      ]_vars

(* C19: while the slot holds a value, a read of the root (self.app, or any  *)
(* attribute looked up through it) resolves nothing for the root: no       *)
(* request, no adapter operation on the meta key, the slot and the meta    *)
(* entry unchanged; a read of the root document or of its operation list   *)
(* returns the document in the slot and leaves the whole cache unchanged,  *)
(* whatever the time and whatever the adapter now holds under the meta key.*)
C19_RootKeptUntilCleared ==
    [][(RootRead /\ app # NoneDoc) =>
          /\ last'.root = NoRec
          /\ app' = app
          /\ cache'[esi_meta_cache_key] = cache[esi_meta_cache_key]
          /\ (last'.name \in {"app", "op"} /\ IsDocument(app)) =>
                /\ last'.out = "ok"
                /\ last'.ret = app
                /\ last'.nested = NoRec
                /\ cache' = cache
                /\ nextId' = nextId
      ]_vars

(* the operation list was read from the document in the slot after the     *)
(* adapter had dropped the meta entry, whose expire had run out            *)
C19_Witness ==
    /\ last.op = "getattr"
    /\ last.name = "op"
    /\ last.out = "ok"
    /\ last.root = NoRec
    /\ IsDocument(app)
    /\ last.ret = app
    /\ caching
    /\ now > 0
    /\ ~cache[esi_meta_cache_key].present

====
